---- MODULE Spec2Model ----
(***************************************************************************)
(* A model of the expodb node's coordination layer:                        *)
(*   - server.Serve, the errgroup that runs and tears down the agents      *)
(*     (src/unnamed/part_000 lines 138-221);                               *)
(*   - server.SetKeyVal / server.GetByRowKey, the client write and read    *)
(*     path over the raft agent (lines 40-58);                             *)
(*   - server.HandleEvent, the gossip handler (lines 94-136);              *)
(*   - the HTTP binding, src/pkg/server/http.go.                           *)
(* Each part has its own next-state relation and specification; the parts  *)
(* share no state in the code, so a specification leaves the variables of  *)
(* the other parts unchanged.                                              *)
(***************************************************************************)
EXTENDS Integers, Sequences, FiniteSets, TLC

VARIABLES
    \* ---- server.Serve ----
    pc,          \* position of each goroutine of the errgroup
    taskErr,     \* what each goroutine returned: "none" until it returns
    cancelled,   \* ctx.Done() of the group's context is closed
    groupErr,    \* errgroup.Group.err, set once
    returned,    \* history: the non-nil errors in the order the goroutines returned them
    sigPending,  \* signalChan (capacity 1) holds an os.Interrupt
    shutdownCh,  \* serfAgent.ShutdownCh(): "open" or "closed"
    listener,    \* the detached goroutine running httpServer.Start
    procAlive,   \* FALSE once logger.Fatal has ended the process
    serveRet,    \* "running", or what Serve returned
    cause,       \* history: what cancelled the context first ("none" before)
    routed,      \* history: when the listener last routed a client request to
                 \* ServeHTTP: "never", "serving" (Serve running) or "returned"
    \* ---- server.HandleEvent ----
    isLeader,    \* what raftAgent.IsLeader() returns now
    metadata,    \* n.metadata: node id -> NodeRecord
    voters,      \* the raft configuration: ids added by a successful AddVoter
    ev,          \* the serf event HandleEvent is handling, or NoEvent
    evIdx,       \* index of the member the event's range loop is at
    evPc,        \* where the loop body is: "add" (before metadata.Add), "gate"
                 \* (before IsLeader()) or "voter" (inside AddVoter)
    addCalls,    \* history: the members passed to metadata.Add for this event
    voterCalls,  \* history: the AddVoter calls issued for this event
    leaderAt,    \* history: IsLeader() as read for each member of this event
    evCount,     \* number of events delivered so far
    voterErrs,   \* history: what each AddVoter call of this event returned
    handled,     \* history: the kind of the event delivered last, with IsLeader()
                 \* and the raft configuration as they were at its delivery
    lastSeen,    \* history: member name -> kind of the last event that named it
    \* ---- client operations ----
    binding,     \* the client binding in use: "server" (part_000) or "http" (http.go)
    replicaLeader, \* this replica is the raft leader
    log,         \* the committed raft log applied on this replica
    table,       \* the state machine's table: table -> row -> column -> value
    inflight,    \* the client calls in flight, per calling goroutine: blocked in
                 \* the engine's future ("pending") or past it ("resolved")
    acked,       \* history: cell -> value, for the cells whose last applied
                 \* write is a SetKeyVal of this replica that has returned nil
    op,          \* the last operation on the state machine that returned, and
                 \* what it returned
    stateValue,  \* node.fsm.stateValue of the HTTP binding: key -> int
    http,        \* the last HTTP request answered, and its response
    httpProc,    \* the process of the HTTP binding: "up", or "fatal" once the Go
                 \* runtime has ended it
    opCount      \* number of client operations so far

serveVars == <<pc, taskErr, cancelled, groupErr, returned, sigPending,
               shutdownCh, listener, procAlive, serveRet, cause, routed>>

gossipVars == <<isLeader, metadata, voters, ev, evIdx, evPc, addCalls, voterCalls,
                leaderAt, evCount, voterErrs, handled, lastSeen>>

clientVars == <<binding, replicaLeader, log, table, inflight, acked, op,
                stateValue, http, httpProc, opCount>>

vars == <<serveVars, gossipVars, clientVars>>

(***************************************************************************)
(* server.Serve                                                            *)
(***************************************************************************)
Tasks == {"monitor", "http", "serf", "signal", "serfCleanup", "raftCleanup"}

CleanupTasks == {"serfCleanup", "raftCleanup"}

NoErr == "nil"

ShutdownErr(c) == IF c = "serfCleanup" THEN "errSerfShutdown" ELSE "errRaftShutdown"

Errors == {"errMonitor", "errSerfStart", "errSerfShutdown", "errRaftShutdown"}

InitServe ==
    /\ pc = [t \in Tasks |->
                CASE t = "serf" -> "start"
                  [] t \in {"signal", "serfCleanup", "raftCleanup"} -> "wait"
                  [] OTHER -> "run"]
    /\ taskErr = [t \in Tasks |-> "none"]
    /\ cancelled = FALSE
    /\ groupErr = NoErr
    /\ returned = <<>>
    /\ sigPending = FALSE
    /\ shutdownCh = "open"
    /\ listener = "none"
    /\ procAlive = TRUE
    /\ serveRet = "running"
    /\ cause = "none"
    /\ routed = "never"

\* The process is running and Serve has not returned.
Live == procAlive /\ serveRet = "running"

\* errgroup: errOnce keeps the first non-nil error.
GroupErrLast(old, e) == IF e = NoErr THEN old ELSE e

GroupErr(old, e) == IF old = NoErr THEN e ELSE old

\* errgroup.Go's wrapper: the goroutine's function returned e; a non-nil error is
\* recorded once and cancels the group's context.
Return(t, e) ==
    /\ pc' = [pc EXCEPT ![t] = "done"]
    /\ taskErr' = [taskErr EXCEPT ![t] = e]
    /\ returned' = IF e = NoErr THEN returned ELSE Append(returned, e)
    /\ groupErr' = GroupErr(groupErr, e)

\* The first canceller is remembered.
FirstCause(c) == IF cancelled THEN cause ELSE c

\* The same, for a step that does not itself call can().
ReturnPlain(t, e) ==
    /\ Return(t, e)
    /\ cancelled' = (cancelled \/ e # NoErr)
    /\ cause' = IF e # NoErr THEN FirstCause(t) ELSE cause

\* monitorLeadership(ctx) returns an error.
MonitorFail ==
    /\ Live /\ pc["monitor"] = "run"
    /\ ReturnPlain("monitor", "errMonitor")
    /\ UNCHANGED <<sigPending, shutdownCh, listener, procAlive, serveRet, routed>>
    /\ UNCHANGED <<gossipVars, clientVars>>

\* monitorLeadership(ctx) observes the cancellation and returns nil.
MonitorStop ==
    /\ Live /\ pc["monitor"] = "run" /\ cancelled
    /\ ReturnPlain("monitor", NoErr)
    /\ UNCHANGED <<sigPending, shutdownCh, listener, procAlive, serveRet, routed>>
    /\ UNCHANGED <<gossipVars, clientVars>>

\* The HTTP goroutine: go httpServer.Start(); return nil.
HttpTask ==
    /\ Live /\ pc["http"] = "run"
    /\ listener' = "running"
    /\ ReturnPlain("http", NoErr)
    /\ UNCHANGED <<sigPending, shutdownCh, procAlive, serveRet, routed>>
    /\ UNCHANGED <<gossipVars, clientVars>>

\* httpServer.Start: http.ListenAndServe returned an error; logger.Fatal ends the
\* process.
HttpFatal ==
    /\ procAlive /\ listener = "running"
    /\ procAlive' = FALSE
    /\ listener' = "failed"
    /\ UNCHANGED <<pc, taskErr, cancelled, groupErr, returned, sigPending,
                   shutdownCh, serveRet, cause, routed>>
    /\ UNCHANGED <<gossipVars, clientVars>>

\* The listener accepts a client connection and routes its request to ServeHTTP.
ListenerServes ==
    /\ procAlive /\ listener = "running"
    /\ routed' = IF serveRet = "running" THEN "serving" ELSE "returned"
    /\ routed' # routed
    /\ UNCHANGED <<pc, taskErr, cancelled, groupErr, returned, sigPending,
                   shutdownCh, listener, procAlive, serveRet, cause>>
    /\ UNCHANGED <<gossipVars, clientVars>>

\* serfAgent.Start() failed: can() ...
SerfStartFail ==
    /\ Live /\ pc["serf"] = "start"
    /\ pc' = [pc EXCEPT !["serf"] = "failed"]
    /\ cancelled' = TRUE
    /\ cause' = FirstCause("serfStart")
    /\ UNCHANGED <<taskErr, groupErr, returned, sigPending, shutdownCh,
                   listener, procAlive, serveRet, routed>>
    /\ UNCHANGED <<gossipVars, clientVars>>

\* ... return err.
SerfStartFailReturn ==
    /\ Live /\ pc["serf"] = "failed"
    /\ Return("serf", "errSerfStart")
    /\ UNCHANGED <<cancelled, cause, sigPending, shutdownCh, listener,
                   procAlive, serveRet, routed>>
    /\ UNCHANGED <<gossipVars, clientVars>>

\* serfAgent.Start() succeeded; the goroutine blocks on <-ShutdownCh().
SerfStartOk ==
    /\ Live /\ pc["serf"] = "start"
    /\ pc' = [pc EXCEPT !["serf"] = "wait"]
    /\ UNCHANGED <<taskErr, cancelled, groupErr, returned, sigPending,
                   shutdownCh, listener, procAlive, serveRet, cause, routed>>
    /\ UNCHANGED <<gossipVars, clientVars>>

\* The started agent shuts down by itself: its shutdown channel closes.
SerfAgentStops ==
    /\ Live /\ pc["serf"] = "wait" /\ shutdownCh = "open"
    /\ shutdownCh' = "closed"
    /\ UNCHANGED <<pc, taskErr, cancelled, groupErr, returned, sigPending,
                   listener, procAlive, serveRet, cause, routed>>
    /\ UNCHANGED <<gossipVars, clientVars>>

\* <-n.serfAgent.ShutdownCh() is readable: can() ...
SerfShutdownSeen ==
    /\ Live /\ pc["serf"] = "wait" /\ shutdownCh = "closed"
    /\ pc' = [pc EXCEPT !["serf"] = "closing"]
    /\ cancelled' = TRUE
    /\ cause' = FirstCause("shutdownCh")
    /\ UNCHANGED <<taskErr, groupErr, returned, sigPending, shutdownCh,
                   listener, procAlive, serveRet, routed>>
    /\ UNCHANGED <<gossipVars, clientVars>>

\* ... return nil.
SerfReturn ==
    /\ Live /\ pc["serf"] = "closing"
    /\ Return("serf", NoErr)
    /\ UNCHANGED <<cancelled, cause, sigPending, shutdownCh, listener,
                   procAlive, serveRet, routed>>
    /\ UNCHANGED <<gossipVars, clientVars>>

\* An os.Interrupt is delivered into signalChan (capacity 1, registered by
\* signal.Notify and never unregistered): the runtime's send does not block, so a
\* signal that finds the channel full is dropped. Once the signal goroutine has
\* left its select nothing reads the channel any more and the signal stays there.
Interrupt ==
    /\ Live /\ ~sigPending
    /\ sigPending' = TRUE
    /\ UNCHANGED <<pc, taskErr, cancelled, groupErr, returned, shutdownCh,
                   listener, procAlive, serveRet, cause, routed>>
    /\ UNCHANGED <<gossipVars, clientVars>>

\* select: case <-signalChan: can() ...
SignalRecv ==
    /\ Live /\ pc["signal"] = "wait" /\ sigPending
    /\ sigPending' = FALSE
    /\ pc' = [pc EXCEPT !["signal"] = "got"]
    /\ cancelled' = TRUE
    /\ cause' = FirstCause("interrupt")
    /\ UNCHANGED <<taskErr, groupErr, returned, shutdownCh, listener,
                   procAlive, serveRet, routed>>
    /\ UNCHANGED <<gossipVars, clientVars>>

\* ... return nil.
SignalReturn ==
    /\ Live /\ pc["signal"] = "got"
    /\ Return("signal", NoErr)
    /\ UNCHANGED <<cancelled, cause, sigPending, shutdownCh, listener,
                   procAlive, serveRet, routed>>
    /\ UNCHANGED <<gossipVars, clientVars>>

\* The select of the signal goroutine has the case <-ctx.Done().
SignalSelectCtx == cancelled

\* select: case <-ctx.Done(): return nil.
SignalCtxDone ==
    /\ Live /\ pc["signal"] = "wait" /\ SignalSelectCtx
    /\ Return("signal", NoErr)
    /\ UNCHANGED <<cancelled, cause, sigPending, shutdownCh, listener,
                   procAlive, serveRet, routed>>
    /\ UNCHANGED <<gossipVars, clientVars>>

\* The cleanup goroutines block on <-ctx.Done().
CleanupGate(c) == cancelled

\* <-ctx.Done() returned: the agent's Shutdown() is invoked.
CleanupInvoke(c) ==
    /\ Live /\ pc[c] = "wait" /\ CleanupGate(c)
    /\ pc' = [pc EXCEPT ![c] = "invoked"]
    /\ UNCHANGED <<taskErr, cancelled, groupErr, returned, sigPending,
                   shutdownCh, listener, procAlive, serveRet, cause, routed>>
    /\ UNCHANGED <<gossipVars, clientVars>>

\* Shutdown() returned e, which the goroutine returns. The serf agent's Shutdown
\* closes its shutdown channel when it succeeds; when it fails the channel may
\* stay open.
CleanupReturn(c, e, closes) ==
    /\ Live /\ pc[c] = "invoked"
    /\ e \in {NoErr, ShutdownErr(c)}
    /\ ReturnPlain(c, e)
    /\ shutdownCh' = IF c = "serfCleanup" /\ (e = NoErr \/ closes)
                     THEN "closed" ELSE shutdownCh
    /\ UNCHANGED <<sigPending, listener, procAlive, serveRet, routed>>
    /\ UNCHANGED <<gossipVars, clientVars>>

\* g.Wait() returns once every goroutine started with g.Go has returned.
WaitReadyNoCleanup == \A t \in Tasks \ CleanupTasks : pc[t] = "done"

WaitReady == \A t \in Tasks : pc[t] = "done"

\* g.Wait() returned: it cancels the context and Serve returns the group's error.
ServeReturn ==
    /\ Live /\ WaitReady
    /\ serveRet' = groupErr
    /\ cancelled' = TRUE
    /\ UNCHANGED <<pc, taskErr, groupErr, returned, sigPending, shutdownCh,
                   listener, procAlive, cause, routed>>
    /\ UNCHANGED <<gossipVars, clientVars>>

\* The goroutines of the group and g.Wait().
NextGroup ==
    \/ MonitorFail
    \/ MonitorStop
    \/ HttpTask
    \/ SerfStartFail
    \/ SerfStartFailReturn
    \/ SerfStartOk
    \/ SerfAgentStops
    \/ SerfShutdownSeen
    \/ SerfReturn
    \/ Interrupt
    \/ SignalRecv
    \/ SignalReturn
    \/ SignalCtxDone
    \/ \E c \in CleanupTasks : CleanupInvoke(c)
    \/ \E c \in CleanupTasks, e \in Errors \cup {NoErr}, closes \in BOOLEAN :
          CleanupReturn(c, e, closes)
    \/ ServeReturn

NextServe == NextGroup \/ HttpFatal \/ ListenerServes

(***************************************************************************)
(* server.HandleEvent                                                      *)
(***************************************************************************)
MaxBatch == 2

MaxEvents == 2

\* serf.Member descriptors: a name and the tag holding the raft address; the
\* third member carries no such tag.
Members ==
    { [name |-> "n1", raftAddr |-> "10.0.0.1:9000"],
      [name |-> "n2", raftAddr |-> "10.0.0.2:9000"],
      [name |-> "n3", raftAddr |-> ""] }

EventKinds == {"Join", "Leave", "Failed", "Reap", "Update", "User"}

Batches == UNION { [1..k -> Members] : k \in 1..MaxBatch }

NoEvent == [kind |-> "none", members |-> <<>>]

\* The record metadata.Add returns with an error.
NilRecord == [id |-> "", raftAddr |-> "", status |-> ""]

InitGossipWith(leaders) ==
    /\ isLeader \in leaders
    /\ metadata = <<>>
    /\ voters = {}
    /\ ev = NoEvent
    /\ evIdx = 1
    /\ evPc = "add"
    /\ addCalls = <<>>
    /\ voterCalls = <<>>
    /\ leaderAt = <<>>
    /\ evCount = 0
    /\ voterErrs = <<>>
    /\ handled = [kind |-> "none", leader |-> FALSE, votersBefore |-> {}]
    /\ lastSeen = <<>>

\* metadata.Add: parses the member into a NodeRecord and upserts it; a member
\* without the raft address tag is an error and leaves the store as it is.
MetadataAdd(md, m) ==
    IF m.raftAddr = ""
    THEN [rec |-> NilRecord, err |-> "malformed", md |-> md]
    ELSE LET rec == [id |-> m.name, raftAddr |-> m.raftAddr, status |-> "Alive"]
         IN  [rec |-> rec, err |-> NoErr,
              md |-> [i \in DOMAIN md \cup {m.name} |->
                        IF i = m.name THEN rec ELSE md[i]]]

\* if !n.raftAgent.IsLeader() { continue }: whether the loop body goes on to
\* AddVoter.
LeaderGateOpen(leader) == TRUE

LeaderGate(leader) == leader

\* One iteration of the range loop of the Join case, for member m with IsLeader()
\* returning leader: the AddVoter calls it issues.
JoinVoterCalls(i, m, leader) ==
    LET rec == MetadataAdd(metadata, m).rec
    IN  IF LeaderGate(leader)
        THEN <<[idx |-> i, id |-> rec.id, addr |-> rec.raftAddr]>>
        ELSE <<>>

\* The raft leadership changes (LeaderNotifyCh).
LeaderChange ==
    /\ isLeader' = ~isLeader
    /\ UNCHANGED <<metadata, voters, ev, evIdx, evPc, addCalls, voterCalls,
                   leaderAt, evCount, voterErrs, handled, lastSeen>>
    /\ UNCHANGED <<serveVars, clientVars>>

\* The member events carry members; a user event or a query carries none.
MemberEventKinds == {"Join", "Leave", "Failed", "Reap", "Update"}

EventMembers(kind, members) == IF kind \in MemberEventKinds THEN members ELSE <<>>

\* The raft reconfiguration calls of the cases other than Join (lines 127-135):
\* each of them only logs.
OtherEventVoterCallsRemove(kind, members, leader) ==
    IF leader /\ kind \in {"Leave", "Failed", "Reap"}
    THEN [i \in 1..Len(members) |->
            [idx |-> i, id |-> members[i].name, addr |-> members[i].raftAddr]]
    ELSE <<>>

OtherEventVoterCalls(kind, members, leader) == <<>>

\* The raft configuration after the voter-removal calls in calls.
VotersAfterRemoval(vs, calls) == vs \ { calls[i].id : i \in DOMAIN calls }

\* lastSeen after an event of this kind naming these members.
SeenAfter(seen, kind, members) ==
    LET names == { members[i].name : i \in DOMAIN members }
    IN  [n \in DOMAIN seen \cup names |-> IF n \in names THEN kind ELSE seen[n]]

\* serf delivers an event to HandleEvent. The Join case goes into its range
\* loop; every other case logs and returns at once.
HandleEventStart(kind, members) ==
    /\ ev = NoEvent /\ evCount < MaxEvents
    /\ evCount' = evCount + 1
    /\ ev' = IF kind = "Join" THEN [kind |-> kind, members |-> members] ELSE NoEvent
    /\ evIdx' = 1
    /\ evPc' = "add"
    /\ addCalls' = <<>>
    /\ leaderAt' = <<>>
    /\ voterErrs' = <<>>
    /\ handled' = [kind |-> kind, leader |-> isLeader, votersBefore |-> voters]
    /\ lastSeen' = SeenAfter(lastSeen, kind, EventMembers(kind, members))
    /\ LET calls == IF kind = "Join" THEN <<>>
                    ELSE OtherEventVoterCalls(kind, EventMembers(kind, members),
                                              isLeader)
       IN  /\ voterCalls' = calls
           /\ voters' = VotersAfterRemoval(voters, calls)
    /\ UNCHANGED <<isLeader, metadata>>
    /\ UNCHANGED <<serveVars, clientVars>>

\* The member the range loop takes after the one at idx of n, whose AddVoter
\* call (if any) returned voterErr: the loop has no break and no return.
NextIdxStopOnError(idx, voterErr, n) == IF voterErr # NoErr THEN n + 1 ELSE idx + 1

NextIdx(idx, voterErr, n) == idx + 1

\* The loop body, line 103: nodedata, err := n.metadata.Add(m); an error is
\* logged and the body goes on.
JoinAdd ==
    /\ ev.kind = "Join" /\ evIdx <= Len(ev.members) /\ evPc = "add"
    /\ LET m == ev.members[evIdx]
           added == MetadataAdd(metadata, m)
       IN  /\ metadata' = added.md
           /\ addCalls' = Append(addCalls, m)
    /\ evPc' = "gate"
    /\ UNCHANGED <<isLeader, voters, ev, evIdx, voterCalls, leaderAt, evCount,
                   voterErrs, handled, lastSeen>>
    /\ UNCHANGED <<serveVars, clientVars>>

\* Lines 109-116: IsLeader() is read; when it is false the body `continue`s,
\* otherwise AddVoter is called and the handler blocks in it.
JoinGate ==
    /\ ev.kind = "Join" /\ evIdx <= Len(ev.members) /\ evPc = "gate"
    /\ LET calls == JoinVoterCalls(evIdx, ev.members[evIdx], isLeader)
       IN  /\ leaderAt' = Append(leaderAt, isLeader)
           /\ voterCalls' = voterCalls \o calls
           /\ evPc' = IF calls = <<>> THEN "add" ELSE "voter"
           /\ evIdx' = IF calls = <<>> THEN NextIdx(evIdx, NoErr, Len(ev.members))
                                      ELSE evIdx
    /\ UNCHANGED <<isLeader, metadata, voters, ev, addCalls, evCount, voterErrs,
                   handled, lastSeen>>
    /\ UNCHANGED <<serveVars, clientVars>>

\* Lines 116-125: AddVoter returns voterErr, having changed the raft
\* configuration when it is nil; an error is logged and the loop goes on.
JoinVoterReturn(voterErr) ==
    /\ ev.kind = "Join" /\ evIdx <= Len(ev.members) /\ evPc = "voter"
    /\ voterErrs' = Append(voterErrs, voterErr)
    /\ voters' = IF voterErr = NoErr
                 THEN voters \cup {voterCalls[Len(voterCalls)].id} ELSE voters
    /\ evIdx' = NextIdx(evIdx, voterErr, Len(ev.members))
    /\ evPc' = "add"
    /\ UNCHANGED <<isLeader, metadata, ev, addCalls, voterCalls, leaderAt,
                   evCount, handled, lastSeen>>
    /\ UNCHANGED <<serveVars, clientVars>>

\* The range loop is over: HandleEvent returns.
HandleEventReturn ==
    /\ ev.kind = "Join" /\ evIdx > Len(ev.members) /\ evPc = "add"
    /\ ev' = NoEvent
    /\ UNCHANGED <<isLeader, metadata, voters, evIdx, evPc, addCalls, voterCalls,
                   leaderAt, evCount, voterErrs, handled, lastSeen>>
    /\ UNCHANGED <<serveVars, clientVars>>

NextGossip ==
    \/ LeaderChange
    \/ \E kind \in EventKinds :
          \E members \in (IF kind \in MemberEventKinds THEN Batches ELSE {<<>>}) :
              HandleEventStart(kind, members)
    \/ JoinAdd
    \/ JoinGate
    \/ \E voterErr \in {NoErr, "errAddVoter"} : JoinVoterReturn(voterErr)
    \/ HandleEventReturn

(***************************************************************************)
(* Client operations: server.SetKeyVal, server.GetByRowKey and the HTTP    *)
(* handlers                                                                *)
(***************************************************************************)
MaxOps == 3

\* The longest committed log.
MaxLog == 2

\* Strings are sequences of characters; Sep is the separator of line 56.
Sep == ":"

Str == { <<"a">>, <<"a", Sep, "a">> }

Vals == {"x", "y"}

\* The (table, row, column) triples the clients use: one cell without the
\* separator in its components and two with it whose keys are the same.
Cells == { << <<"a">>, <<"a">>, <<"a">> >>,
           << <<"a", Sep, "a">>, <<"a">>, <<"a">> >>,
           << <<"a">>, <<"a">>, <<"a", Sep, "a">> >> }

\* The (table, row) pairs of those cells.
Rows == { <<cell[1], cell[2]>> : cell \in Cells }

EmptyMap == [k \in {} |-> k]

\* m[k] = v, creating the key on demand.
Upsert(m, k, v) == [x \in DOMAIN m \cup {k} |-> IF x = k THEN v ELSE m[x]]

Remove(m, k) == [x \in DOMAIN m \ {k} |-> m[x]]

\* SetKeyVal: Key: table + ":" + key + ":" + col.
MakeKey(t, r, c) == t \o <<Sep>> \o r \o <<Sep>> \o c

KVData(t, r, c, v) == [Key |-> MakeKey(t, r, c), Val |-> v]

Min(S) == CHOOSE x \in S : \A y \in S : x <= y

SepAt(key) == { i \in 1..Len(key) : key[i] = Sep }

\* The state machine decodes an entry's key into (table, row, column) at the
\* first two separators.
SplitKey(key) ==
    LET i == Min(SepAt(key))
        j == Min({ k \in SepAt(key) : k > i })
    IN  [table |-> SubSeq(key, 1, i - 1),
         row |-> SubSeq(key, i + 1, j - 1),
         column |-> SubSeq(key, j + 1, Len(key))]

\* The state machine's apply: state[table][row][column] = value, creating the
\* intermediate levels on demand.
RsmApply(tbl, e) ==
    LET k == SplitKey(e.Key)
        rows == IF k.table \in DOMAIN tbl THEN tbl[k.table] ELSE EmptyMap
        cols == IF k.row \in DOMAIN rows THEN rows[k.row] ELSE EmptyMap
    IN  Upsert(tbl, k.table, Upsert(rows, k.row, Upsert(cols, k.column, e.Val)))

\* raftAgent.GetByRowKey: the row's column -> value mapping, or not found.
RsmGetByRowKey(tbl, t, r) ==
    IF t \in DOMAIN tbl /\ r \in DOMAIN tbl[t]
    THEN [cols |-> tbl[t][r], err |-> NoErr]
    ELSE [cols |-> EmptyMap, err |-> "errNotFound"]

\* What the consensus engine's Apply can report: only the leader commits.
RaftApplyOutcomes(leader) ==
    IF leader THEN {NoErr, "errTimeout"} ELSE {"errNotLeader"}

\* The engine hands an entry to the state machine only when it committed it.
TableAfterApply(tbl, e, applyErr) ==
    IF applyErr = NoErr THEN RsmApply(tbl, e) ELSE tbl

LogAfterApply(l, e, applyErr) == IF applyErr = NoErr THEN Append(l, e) ELSE l

\* SetKeyVal: return n.raftAgent.Apply(kve).
SetKeyValResultNil(applyErr) == NoErr

SetKeyValResult(applyErr) == applyErr

\* changed: whether the engine's answer to a write changed the log or the table;
\* applied: whether the write's entry was the last of the log at that answer;
\* acked: the acknowledged cells as they were when a read was made.
NoOp ==
    [kind |-> "none", table |-> <<>>, row |-> <<>>, column |-> <<>>, value |-> "",
     submitted |-> <<>>, applyErr |-> NoErr, result |-> NoErr, cols |-> EmptyMap,
     changed |-> FALSE, applied |-> FALSE, acked |-> EmptyMap]

\* The goroutines that call into the client operations (one per inbound request).
Callers == {"c1", "c2"}

\* A caller that is in no call.
NoCall == [state |-> "idle", req |-> [kind |-> "none"], err |-> NoErr,
           changed |-> FALSE, applied |-> FALSE, latest |-> FALSE]

\* The caller a new request runs on.
FreeCaller == IF inflight["c1"].state = "idle" THEN "c1" ELSE "c2"

\* ---- the HTTP binding ----
StatusOK == 200

StatusBadRequest == 400

StatusNotFound == 404

StatusMethodNotAllowed == 405

StatusInternalServerError == 500

Methods == {"POST", "GET", "PUT"}

\* r.URL.Path as its segments.
Paths == { <<"/key", "/a">>, <<"/join">>, <<"/other">> }

\* The request body: undecodable, or {"value": n}.
Bodies == { [ok |-> FALSE, value |-> 0], [ok |-> TRUE, value |-> 1],
            [ok |-> TRUE, value |-> 2] }

\* The Peer-Address header; "" when it is not set.
PeerAddrs == {"", "10.0.0.2:9000"}

\* http.ResponseWriter: the status line is sent by the first WriteHeader (or by
\* the first Write, as 200); a later WriteHeader changes nothing.
NewWriter == [status |-> 0, body |-> <<>>]

WriteHeader(w, code) == IF w.status = 0 THEN [w EXCEPT !.status = code] ELSE w

Write(w, b) ==
    [status |-> IF w.status = 0 THEN StatusOK ELSE w.status, body |-> Append(w.body, b)]

\* The status the client receives: 200 when the handler wrote none.
SentStatus(w) == IF w.status = 0 THEN StatusOK ELSE w.status

statusNotFound(w) == Write(WriteHeader(w, StatusNotFound), "404 not found")

statusInternalError(w) ==
    Write(WriteHeader(w, StatusInternalServerError), "internal server error")

HasPrefix(path, seg) == Len(path) >= 1 /\ path[1] = seg

\* strings.Replace(s, "/key", "", 1)
RECURSIVE removeKeyPath(_)
removeKeyPath(path) ==
    IF path = <<>> THEN <<>>
    ELSE IF path[1] = "/key" THEN Tail(path)
    ELSE <<path[1]>> \o removeKeyPath(Tail(path))

\* Each handler yields the response writer, the entries handed to raftNode.Apply
\* and the AddVoter calls it made. json.Marshal cannot fail on the structs the
\* handlers build, so their "Failed to marshal" branches are not taken.
handleKeyPostOkAlways(w, path, body, applyErr) ==
    [w |-> WriteHeader(w, StatusOK),
     submitted |-> <<[Type |-> "set", Key |-> removeKeyPath(path), Value |-> body.value]>>,
     joins |-> <<>>]

handleKeyPost(w, path, body, applyErr) ==
    IF ~body.ok
    THEN [w |-> WriteHeader(w, StatusBadRequest), submitted |-> <<>>, joins |-> <<>>]
    ELSE LET event == [Type |-> "set", Key |-> removeKeyPath(path), Value |-> body.value]
         IN  IF applyErr # NoErr
             THEN [w |-> statusInternalError(w), submitted |-> <<event>>, joins |-> <<>>]
             ELSE [w |-> WriteHeader(w, StatusOK), submitted |-> <<event>>, joins |-> <<>>]

handleKeyGet(w, path, sv) ==
    LET w1 == WriteHeader(w, StatusOK)
        key == removeKeyPath(path)
    IN  IF key \notin DOMAIN sv
        THEN [w |-> statusNotFound(w1), submitted |-> <<>>, joins |-> <<>>]
        ELSE [w |-> Write(w1, [Value |-> sv[key]]), submitted |-> <<>>, joins |-> <<>>]

handleJoin(w, peer, voterErr) ==
    LET w1 == IF peer = "" THEN WriteHeader(w, StatusBadRequest) ELSE w
        call == [id |-> peer, addr |-> peer]
    IN  IF voterErr # NoErr
        THEN [w |-> statusInternalError(w1), submitted |-> <<>>, joins |-> <<call>>]
        ELSE [w |-> WriteHeader(w1, StatusOK), submitted |-> <<>>, joins |-> <<call>>]

handleRequest(w, method, path, body, sv, engineErr) ==
    CASE method = "POST" -> handleKeyPost(w, path, body, engineErr)
      [] method = "GET" -> handleKeyGet(w, path, sv)
      [] OTHER -> [w |-> WriteHeader(w, StatusMethodNotAllowed),
                   submitted |-> <<>>, joins |-> <<>>]

ServeHTTP(w, method, path, body, peer, sv, engineErr) ==
    IF HasPrefix(path, "/key") THEN handleRequest(w, method, path, body, sv, engineErr)
    ELSE IF HasPrefix(path, "/join") THEN handleJoin(w, peer, engineErr)
    ELSE [w |-> WriteHeader(w, StatusBadRequest), submitted |-> <<>>, joins |-> <<>>]

\* The fsm of the HTTP binding applies a committed "set" event.
FsmApply(sv, e) == Upsert(sv, e.Key, e.Value)

\* A request without a (decodable) body.
NoBody == [ok |-> FALSE, value |-> 0]

\* before: the fsm's map as a GET read it; changed: whether the engine's answer
\* changed the fsm's map; applied: whether the map held the posted value at
\* that answer.
NoRequest ==
    [method |-> "none", path |-> <<>>, body |-> NoBody,
     peer |-> "", engineErr |-> NoErr, status |-> 0, respBody |-> <<>>,
     submitted |-> <<>>, joins |-> <<>>, before |-> EmptyMap,
     changed |-> FALSE, applied |-> FALSE]

\* The handlers that wait for a future of the raft node: handleKeyPost in
\* applyFuture.Error() (line 87), handleJoin in addPeerFuture.Error() (line 132).
Blocking(method, path, body) ==
    \/ HasPrefix(path, "/key") /\ method = "POST" /\ body.ok
    \/ ~HasPrefix(path, "/key") /\ HasPrefix(path, "/join")

InitClientWith(bindings, leaders) ==
    /\ binding \in bindings
    /\ replicaLeader \in leaders
    /\ log = <<>>
    /\ table = EmptyMap
    /\ inflight = [w \in Callers |-> NoCall]
    /\ acked = EmptyMap
    /\ op = NoOp
    /\ stateValue = EmptyMap
    /\ http = NoRequest
    /\ httpProc = "up"
    /\ opCount = 0

\* The raft leadership of this replica changes.
ReplicaLeaderChange ==
    /\ replicaLeader' = ~replicaLeader
    /\ UNCHANGED <<binding, log, table, inflight, acked, op, stateValue,
                   http, httpProc, opCount>>
    /\ UNCHANGED <<serveVars, gossipVars>>

\* The cell a pending or resolved SetKeyVal writes.
CellOf(call) == <<call.req.table, call.req.row, call.req.column>>

\* A write to cell was applied: no earlier resolved SetKeyVal is the last write
\* to that cell any more.
Superseded(cs, cell) ==
    [w \in Callers |->
        IF cs[w].state = "resolved" /\ CellOf(cs[w]) = cell
        THEN [cs[w] EXCEPT !.latest = FALSE] ELSE cs[w]]

\* server.SetKeyVal(t, r, c, v), lines 54-57: the entry is built and handed to
\* n.raftAgent.Apply, in which the caller blocks.
SetKeyValCall(t, r, c, v) ==
    /\ binding = "server" /\ opCount < MaxOps
    /\ inflight[FreeCaller].state = "idle"
    /\ inflight' = [inflight EXCEPT ![FreeCaller] =
                    [state |-> "pending",
                     req |-> [kind |-> "write", table |-> t, row |-> r,
                              column |-> c, value |-> v,
                              submitted |-> <<KVData(t, r, c, v)>>],
                     err |-> NoErr, changed |-> FALSE, applied |-> FALSE,
                     latest |-> FALSE]]
    /\ opCount' = opCount + 1
    /\ UNCHANGED <<binding, replicaLeader, log, table, acked, op, stateValue,
                   http, httpProc>>
    /\ UNCHANGED <<serveVars, gossipVars>>

\* The engine answers the Apply of caller w with applyErr, having committed and
\* applied the entry when it is nil.
RaftApplyResolve(w, applyErr) ==
    /\ binding = "server" /\ inflight[w].state = "pending"
    /\ applyErr \in RaftApplyOutcomes(replicaLeader)
    /\ applyErr = NoErr => Len(log) < MaxLog
    /\ LET kve == inflight[w].req.submitted[1]
       IN  /\ log' = LogAfterApply(log, kve, applyErr)
           /\ table' = TableAfterApply(table, kve, applyErr)
           /\ inflight' = [(IF applyErr = NoErr THEN Superseded(inflight, CellOf(inflight[w]))
                                             ELSE inflight)
                           EXCEPT ![w] = [inflight[w] EXCEPT
                                            !.state = "resolved",
                                            !.err = applyErr,
                                            !.changed = (log' # log \/ table' # table),
                                            !.applied = (/\ log' # <<>>
                                                         /\ log'[Len(log')] = kve),
                                            !.latest = (applyErr = NoErr)]]
    /\ acked' = IF applyErr = NoErr THEN Remove(acked, CellOf(inflight[w])) ELSE acked
    /\ UNCHANGED <<binding, replicaLeader, op, stateValue, http, httpProc, opCount>>
    /\ UNCHANGED <<serveVars, gossipVars>>

\* Line 57: SetKeyVal returns what Apply returned.
SetKeyValReturn(w) ==
    /\ binding = "server" /\ inflight[w].state = "resolved"
    /\ LET call == inflight[w]
           result == SetKeyValResult(call.err)
       IN  /\ op' = [kind |-> "write", table |-> call.req.table,
                     row |-> call.req.row, column |-> call.req.column,
                     value |-> call.req.value, submitted |-> call.req.submitted,
                     applyErr |-> call.err, result |-> result, cols |-> EmptyMap,
                     changed |-> call.changed, applied |-> call.applied,
                     acked |-> EmptyMap]
           /\ acked' = IF result = NoErr /\ call.latest
                        THEN Upsert(acked, CellOf(call), call.req.value)
                        ELSE acked
    /\ inflight' = [inflight EXCEPT ![w] = NoCall]
    /\ UNCHANGED <<binding, replicaLeader, log, table, stateValue, http, httpProc,
                   opCount>>
    /\ UNCHANGED <<serveVars, gossipVars>>

\* server.GetByRowKey(t, r).
GetByRowKey(t, r) ==
    /\ binding = "server" /\ opCount < MaxOps
    /\ LET res == RsmGetByRowKey(table, t, r)
       IN  op' = [kind |-> "read", table |-> t, row |-> r, column |-> <<>>,
                  value |-> "", submitted |-> <<>>, applyErr |-> NoErr,
                  result |-> res.err, cols |-> res.cols, changed |-> FALSE,
                  applied |-> FALSE, acked |-> acked]
    /\ opCount' = opCount + 1
    /\ UNCHANGED <<binding, replicaLeader, log, table, inflight, acked, stateValue,
                   http, httpProc>>
    /\ UNCHANGED <<serveVars, gossipVars>>

\* On a follower the engine applies an entry the leader committed for another
\* node's SetKeyVal(t, r, c, v): a later write to that cell.
Replicate(t, r, c, v) ==
    /\ binding = "server" /\ opCount < MaxOps /\ ~replicaLeader
    /\ Len(log) < MaxLog
    /\ log' = Append(log, KVData(t, r, c, v))
    /\ table' = RsmApply(table, KVData(t, r, c, v))
    /\ acked' = Remove(acked, <<t, r, c>>)
    /\ inflight' = Superseded(inflight, <<t, r, c>>)
    /\ opCount' = opCount + 1
    /\ UNCHANGED <<binding, replicaLeader, op, stateValue, http, httpProc>>
    /\ UNCHANGED <<serveVars, gossipVars>>

\* The answer of ServeHTTP to the request req, engineErr being what the future
\* it waited for (if any) reported and sv the fsm's map as the handler read it.
Response(req, sv, engineErr) ==
    LET out == ServeHTTP(NewWriter, req.method, req.path, req.body, req.peer, sv,
                         engineErr)
    IN  [method |-> req.method, path |-> req.path, body |-> req.body,
         peer |-> req.peer, engineErr |-> engineErr,
         status |-> SentStatus(out.w), respBody |-> out.w.body,
         submitted |-> out.submitted, joins |-> out.joins]

\* httpServer.ServeHTTP for one request, in its own goroutine of net/http. A
\* handler that waits for a future blocks there; the others answer at once.
HttpRequest(method, path, body, peer) ==
    /\ binding = "http" /\ httpProc = "up" /\ opCount < MaxOps
    /\ LET req == [kind |-> "http", method |-> method, path |-> path,
                   body |-> body, peer |-> peer]
       IN  IF Blocking(method, path, body)
           THEN /\ inflight[FreeCaller].state = "idle"
                /\ inflight' = [inflight EXCEPT ![FreeCaller] =
                                   [NoCall EXCEPT !.state = "pending", !.req = req]]
                /\ http' = http
           ELSE /\ http' = [field \in DOMAIN NoRequest |->
                              CASE field = "before" ->
                                     IF method = "GET" THEN stateValue ELSE EmptyMap
                                [] field \in {"changed", "applied"} -> FALSE
                                [] OTHER -> Response(req, stateValue, NoErr)[field]]
                /\ inflight' = inflight
    /\ opCount' = opCount + 1
    /\ UNCHANGED <<binding, replicaLeader, log, table, acked, op, stateValue,
                   httpProc>>
    /\ UNCHANGED <<serveVars, gossipVars>>

\* The future caller w waits for reports engineErr. When it is nil the engine
\* has committed the request: the fsm has applied the "set" event of a POST, the
\* raft configuration holds the voter of a join.
HttpFutureResolve(w, engineErr) ==
    /\ binding = "http" /\ httpProc = "up" /\ inflight[w].state = "pending"
    /\ engineErr \in RaftApplyOutcomes(replicaLeader)
    /\ LET req == inflight[w].req
           out == Response(req, stateValue, engineErr)
       IN  /\ stateValue' = IF out.submitted # <<>> /\ engineErr = NoErr
                            THEN FsmApply(stateValue, out.submitted[1])
                            ELSE stateValue
           /\ voters' = IF out.joins # <<>> /\ engineErr = NoErr
                        THEN voters \cup {out.joins[1].id} ELSE voters
           /\ inflight' = [inflight EXCEPT ![w] =
                  [@ EXCEPT !.state = "resolved", !.err = engineErr,
                            !.changed = (stateValue' # stateValue),
                            !.applied = (/\ out.submitted # <<>>
                                         /\ out.submitted[1].Key \in DOMAIN stateValue'
                                         /\ stateValue'[out.submitted[1].Key]
                                               = out.submitted[1].Value)]]
    /\ UNCHANGED <<binding, replicaLeader, log, table, acked, op, http, httpProc,
                   opCount>>
    /\ UNCHANGED <<isLeader, metadata, ev, evIdx, evPc, addCalls, voterCalls,
                   leaderAt, evCount, voterErrs, handled, lastSeen>>
    /\ UNCHANGED serveVars

\* The handler of caller w goes on after the future and answers.
HttpRespond(w) ==
    /\ binding = "http" /\ httpProc = "up" /\ inflight[w].state = "resolved"
    /\ LET call == inflight[w]
       IN  http' = [field \in DOMAIN NoRequest |->
                     CASE field = "before" -> EmptyMap
                       [] field = "changed" -> call.changed
                       [] field = "applied" -> call.applied
                       [] OTHER -> Response(call.req, stateValue, call.err)[field]]
    /\ inflight' = [inflight EXCEPT ![w] = NoCall]
    /\ UNCHANGED <<binding, replicaLeader, log, table, acked, op, stateValue,
                   httpProc, opCount>>
    /\ UNCHANGED <<serveVars, gossipVars>>

\* The "set" events clients post: the keys of the key paths, the decodable
\* bodies' values.
PostedEvents ==
    { [Type |-> "set", Key |-> removeKeyPath(path), Value |-> body.value] :
        path \in { q \in Paths : HasPrefix(q, "/key") },
        body \in { b \in Bodies : b.ok } }

\* On a follower the fsm applies a "set" event the leader committed for a
\* request posted to another node.
HttpReplicate(e) ==
    /\ binding = "http" /\ httpProc = "up" /\ opCount < MaxOps
    /\ ~replicaLeader
    /\ stateValue' = FsmApply(stateValue, e)
    /\ opCount' = opCount + 1
    /\ UNCHANGED <<binding, replicaLeader, log, table, inflight, acked, op, http,
                   httpProc>>
    /\ UNCHANGED <<serveVars, gossipVars>>

\* The fsm may be writing its map now: on the leader when the event of a POST
\* pending here is being committed, on a follower whenever the leader
\* replicates an event.
FsmMayWrite ==
    \/ /\ NoErr \in RaftApplyOutcomes(replicaLeader)
       /\ \E w \in Callers :
             /\ inflight[w].state = "pending"
             /\ inflight[w].req.method = "POST"
             /\ HasPrefix(inflight[w].req.path, "/key")
    \/ ~replicaLeader

\* handleKeyGet reads server.node.fsm.stateValue[key] (line 99) without a lock
\* while the fsm applies a committed event: a data race on a Go map. The read
\* may see the map as it was before or after the write, which HttpRequest covers
\* on either side of HttpFutureResolve or HttpReplicate, or the runtime ends the
\* process ("concurrent map read and map write").
HttpGetRace(path) ==
    /\ binding = "http" /\ httpProc = "up" /\ opCount < MaxOps
    /\ HasPrefix(path, "/key")
    /\ FsmMayWrite
    /\ httpProc' = "fatal"
    /\ opCount' = opCount + 1
    /\ UNCHANGED <<binding, replicaLeader, log, table, inflight, acked, op,
                   stateValue, http>>
    /\ UNCHANGED <<serveVars, gossipVars>>

NextClient ==
    \/ ReplicaLeaderChange
    \/ \E cell \in Cells, v \in Vals : SetKeyValCall(cell[1], cell[2], cell[3], v)
    \/ \E w \in Callers, applyErr \in {NoErr, "errTimeout", "errNotLeader"} :
          RaftApplyResolve(w, applyErr)
    \/ \E w \in Callers : SetKeyValReturn(w)
    \/ \E row \in Rows : GetByRowKey(row[1], row[2])
    \/ \E cell \in Cells, v \in Vals : Replicate(cell[1], cell[2], cell[3], v)
    \/ \E path \in Paths, method \in Methods :
          \E body \in (IF method = "POST" /\ HasPrefix(path, "/key")
                        THEN Bodies ELSE {NoBody}),
             peer \in (IF Blocking(method, path, NoBody) THEN PeerAddrs ELSE {""}) :
              HttpRequest(method, path, body, peer)
    \/ \E w \in Callers, engineErr \in {NoErr, "errTimeout", "errNotLeader"} :
          HttpFutureResolve(w, engineErr)
    \/ \E w \in Callers : HttpRespond(w)
    \/ \E e \in PostedEvents : HttpReplicate(e)
    \/ \E path \in Paths : HttpGetRace(path)

\* The steps a goroutine of the group takes by itself once it can: the Go scheduler
\* runs every runnable goroutine.
GroupFairness ==
    /\ WF_vars(HttpTask)
    /\ WF_vars(SerfStartFailReturn)
    /\ WF_vars(SerfShutdownSeen)
    /\ WF_vars(SerfReturn)
    /\ WF_vars(SignalRecv \/ SignalCtxDone)
    /\ WF_vars(SignalReturn)
    /\ \A c \in CleanupTasks : WF_vars(CleanupInvoke(c))
    /\ WF_vars(ServeReturn)

\* The state before any part has taken a step.
InitGossipIdle == InitGossipWith({FALSE})

InitClientIdle == InitClientWith({"server"}, {FALSE})

Init == InitServe /\ InitGossipIdle /\ InitClientIdle

\* Serve with the detached HTTP listener.
Spec == Init /\ [][NextServe]_vars

\* The gossip handler, on a node that is or is not the leader.
InitGossip == InitServe /\ InitGossipWith(BOOLEAN) /\ InitClientIdle

GossipSpec == InitGossip /\ [][NextGossip]_vars

\* The client operations, through either binding, on a leader or a follower.
InitClient == InitServe /\ InitGossipIdle /\ InitClientWith({"server", "http"}, BOOLEAN)

ClientSpec == InitClient /\ [][NextClient]_vars

\* Serve with the detached HTTP listener, every runnable goroutine of the group
\* being scheduled. Nothing obliges the listener to fail or to serve.
LiveSpec == Init /\ [][NextServe]_vars /\ GroupFairness

\* Serve with the detached HTTP listener, where the serf agent's Shutdown()
\* closes ShutdownCh whatever it returns.
NextTerm ==
    \/ MonitorFail
    \/ MonitorStop
    \/ HttpTask
    \/ SerfStartFail
    \/ SerfStartFailReturn
    \/ SerfStartOk
    \/ SerfAgentStops
    \/ SerfShutdownSeen
    \/ SerfReturn
    \/ Interrupt
    \/ SignalRecv
    \/ SignalReturn
    \/ SignalCtxDone
    \/ \E c \in CleanupTasks : CleanupInvoke(c)
    \/ \E c \in CleanupTasks, e \in Errors \cup {NoErr} : CleanupReturn(c, e, TRUE)
    \/ ServeReturn
    \/ HttpFatal
    \/ ListenerServes

\* monitorLeadership returns once the context is cancelled and both Shutdown()
\* calls return. serfAgent.Start() is not obliged to return.
CallsReturn ==
    /\ WF_vars(MonitorStop)
    /\ \A c \in CleanupTasks :
          WF_vars(\E e \in Errors \cup {NoErr} : CleanupReturn(c, e, TRUE))

TermSpec == Init /\ [][NextTerm]_vars /\ GroupFairness /\ CallsReturn

(***************************************************************************)
(* Properties of server.Serve                                              *)
(***************************************************************************)
ShutdownInvoked(c) == pc[c] \in {"invoked", "done"}

ShutdownReturned(c) == pc[c] = "done"

\* C1: the serf agent's Shutdown is invoked strictly before the raft agent's
\* Shutdown: in no state has the raft Shutdown been invoked while the serf
\* Shutdown has not.
C1_SerfShutdownBeforeRaft ==
    ShutdownInvoked("raftCleanup") => ShutdownInvoked("serfCleanup")

\* C8: Serve returns only after both Shutdown calls were invoked and returned.
C8_ServeWaitsForShutdowns ==
    serveRet # "running" =>
        ShutdownReturned("serfCleanup") /\ ShutdownReturned("raftCleanup")

\* C8 witness: Serve has returned after an interrupt.
C8_Witness == serveRet # "running" /\ cause = "interrupt"

\* What cancels the scope: the monitor returned an error, the serf agent failed
\* to start, its shutdown channel is closed, an interrupt is pending.
Triggered ==
    \/ taskErr["monitor"] \notin {"none", NoErr}
    \/ pc["serf"] = "failed"
    \/ shutdownCh = "closed"
    \/ sigPending

\* C9: each trigger leads to the scope being cancelled and to both Shutdown
\* calls being invoked, and no Shutdown is invoked while the scope is not
\* cancelled.
C9_TriggersCancelAndShutdown ==
    /\ Triggered ~> (cancelled /\ ShutdownInvoked("serfCleanup")
                                /\ ShutdownInvoked("raftCleanup"))
    /\ [](\A c \in CleanupTasks : ShutdownInvoked(c) => cancelled)

\* C10: Serve returns nil exactly when every goroutine returned nil, and
\* otherwise the error of the goroutine that was first to return one.
C10_ServeReturnsFirstError ==
    serveRet # "running" =>
        /\ (serveRet = NoErr) <=> (\A t \in Tasks : taskErr[t] = NoErr)
        /\ returned # <<>> => serveRet = returned[1]

\* C10 witness: Serve has returned after two goroutines returned different
\* errors.
C10_Witness ==
    /\ serveRet # "running"
    /\ Len(returned) >= 2 /\ returned[1] # returned[2]

(***************************************************************************)
(* Properties of the client operations                                     *)
(***************************************************************************)
IsKeyPost == http.method = "POST" /\ HasPrefix(http.path, "/key")

IsKeyGet == http.method = "GET" /\ HasPrefix(http.path, "/key")

\* C3: a write hands exactly one entry, the one built from its arguments, to the
\* engine's Apply, and reports success (nil, status 200) only when Apply reported
\* the entry committed, which then is the last entry applied.
C3_WriteSuccessMeansCommitted ==
    /\ op.kind = "write" =>
          /\ op.submitted = <<KVData(op.table, op.row, op.column, op.value)>>
          /\ op.result = NoErr =>
                /\ op.applyErr = NoErr
                /\ op.applied
                /\ \E i \in 1..Len(log) : log[i] = op.submitted[1]
    /\ IsKeyPost =>
          /\ Len(http.submitted) = (IF http.body.ok THEN 1 ELSE 0)
          /\ http.status = StatusOK =>
                /\ http.engineErr = NoErr
                /\ Len(http.submitted) = 1
                /\ http.applied

\* C3 witness: a SetKeyVal that returned nil after an earlier entry was committed.
C3_Witness == op.kind = "write" /\ op.result = NoErr /\ Len(log) = 2

\* C4: GetByRowKey(table, row) returns, for every column of that row whose last
\* applied write was a successful SetKeyVal on this replica, the value written.
C4_ReadYourWrite ==
    op.kind = "read" =>
        \A c \in Str :
            <<op.table, op.row, c>> \in DOMAIN op.acked =>
                /\ op.result = NoErr
                /\ c \in DOMAIN op.cols
                /\ op.cols[c] = op.acked[<<op.table, op.row, c>>]

\* C6: GET on a key path answers 404 when the key is absent from the state
\* machine and 200 with the stored value when it is present.
C6_GetAbsentIs404 ==
    IsKeyGet =>
        LET key == removeKeyPath(http.path)
        IN  IF key \in DOMAIN http.before
            THEN /\ http.status = StatusOK
                 /\ http.respBody = <<[Value |-> http.before[key]]>>
            ELSE http.status = StatusNotFound

\* C7: a write whose Apply is rejected or times out returns a failure (an error,
\* status 500) and leaves the replica's table as it was.
C7_RejectedWriteFails ==
    /\ op.kind = "write" /\ op.applyErr # NoErr =>
          /\ op.result # NoErr
          /\ ~op.changed
    /\ IsKeyPost /\ http.body.ok /\ http.engineErr # NoErr =>
          /\ http.status = StatusInternalServerError
          /\ ~http.changed

\* C7 witness: a SetKeyVal on a replica that is not the leader and whose table
\* is not empty was rejected.
C7_Witness ==
    /\ op.kind = "write" /\ op.applyErr = "errNotLeader"
    /\ table # EmptyMap

(***************************************************************************)
(* Properties of server.HandleEvent                                        *)
(***************************************************************************)
\* The AddVoter calls issued for the i-th member of the event.
VoterCallsFor(i) == SelectSeq(voterCalls, LAMBDA c : c.idx = i)

\* C2: every member of a Join processed so far was passed to metadata.Add; a
\* member processed while IsLeader() was false got no AddVoter call; a member
\* processed while it was true got exactly one, and for a member Add accepted
\* that call carries the member's id and raft address.
C2_LeaderGate ==
    ev.kind = "Join" =>
        /\ Len(addCalls) = (IF evPc = "add" THEN evIdx - 1 ELSE evIdx)
        /\ Len(leaderAt) = (IF evPc = "voter" THEN evIdx ELSE evIdx - 1)
        /\ \A i \in 1..Len(addCalls) : addCalls[i] = ev.members[i]
        /\ \A i \in 1..Len(leaderAt) :
              /\ ~leaderAt[i] => VoterCallsFor(i) = <<>>
              /\ leaderAt[i] =>
                    /\ Len(VoterCallsFor(i)) = 1
                    /\ ev.members[i].raftAddr # "" =>
                          /\ VoterCallsFor(i)[1].id = ev.members[i].name
                          /\ VoterCallsFor(i)[1].addr = ev.members[i].raftAddr

\* C2 witness: a two-member Join was processed, the first member while this node
\* was not leader and the second while it was.
C2_Witness ==
    /\ ev.kind = "Join" /\ evIdx = 3 /\ evPc = "add"
    /\ ~leaderAt[1] /\ leaderAt[2]
    /\ Len(voterCalls) = 1

\* C11: handling an event that is not a Join (Leave, Failed, Reap, or a kind
\* the switch does not name) issues no raft reconfiguration call, and the voter
\* set stays as it was when the event was delivered, on the leader as well as
\* on a follower.
C11_NonJoinLeavesVoters ==
    handled.kind \notin {"none", "Join"} =>
        /\ voterCalls = <<>>
        /\ voters = handled.votersBefore

\* C11 witness: a Leave, Failed or Reap event naming a current voter was handled
\* while this node was leader.
C11_Witness ==
    /\ handled.kind \in {"Leave", "Failed", "Reap"}
    /\ handled.leader
    /\ \E n \in handled.votersBefore :
          n \in DOMAIN lastSeen /\ lastSeen[n] = handled.kind

\* C12: in a Join event a member that metadata.Add rejects is skipped: no
\* AddVoter call is issued for it.
C12_MalformedMemberSkipped ==
    ev.kind = "Join" =>
        \A i \in 1..Len(addCalls) :
            MetadataAdd(metadata, addCalls[i]).err # NoErr => VoterCallsFor(i) = <<>>

\* C13: when the Join loop is over, an AddVoter error for one member has not
\* kept any later member of the batch from metadata.Add, nor, where this node
\* was leader, from its own AddVoter call.
C13_AddVoterErrorDoesNotStopBatch ==
    (ev.kind = "Join" /\ evIdx > Len(ev.members) /\ evPc = "add") =>
        \A k \in 1..Len(voterErrs) :
            voterErrs[k] # NoErr =>
                \A j \in (voterCalls[k].idx + 1)..Len(ev.members) :
                    /\ j <= Len(addCalls)
                    /\ addCalls[j] = ev.members[j]
                    /\ ev.members[j].raftAddr # "" =>
                          ev.members[j].name \in DOMAIN metadata
                    /\ leaderAt[j] => Len(VoterCallsFor(j)) = 1

\* C13 witness: a two-member Join is over on the leader, AddVoter failed for the
\* first member and was called again for the second.
C13_Witness ==
    /\ ev.kind = "Join" /\ evIdx = 3 /\ evPc = "add"
    /\ Len(voterErrs) = 2 /\ voterErrs[1] = "errAddVoter"
    /\ voterCalls[2].idx = 2

\* The member names whose descriptor metadata.Add accepts.
WellFormedNames == { m.name : m \in { x \in Members : x.raftAddr # "" } }

\* C17: between events, the record of a member reflects the last event that
\* named it: after a Join or Update there is a record with status Alive, after
\* a Leave or Failed the record is kept with status Left or Failed.
C17_MetadataReflectsLastEvent ==
    ev = NoEvent =>
        \A n \in DOMAIN lastSeen \cap WellFormedNames :
            /\ lastSeen[n] \in {"Join", "Update"} =>
                  n \in DOMAIN metadata /\ metadata[n].status = "Alive"
            /\ (lastSeen[n] = "Leave" /\ n \in DOMAIN metadata) =>
                  metadata[n].status = "Left"
            /\ (lastSeen[n] = "Failed" /\ n \in DOMAIN metadata) =>
                  metadata[n].status = "Failed"

\* The last HTTP request was routed to handleJoin.
IsJoin ==
    /\ http.method # "none"
    /\ ~HasPrefix(http.path, "/key")
    /\ HasPrefix(http.path, "/join")

\* C14: a join request without a Peer-Address header is answered 400 and makes
\* no AddVoter call; one with a peer address makes exactly one AddVoter call for
\* that address and is answered 200 when it succeeds and 500 when it fails.
C14_JoinWithoutPeerRejected ==
    IsJoin =>
        /\ http.peer = "" => http.status = StatusBadRequest /\ http.joins = <<>>
        /\ http.peer # "" =>
              /\ http.joins = <<[id |-> http.peer, addr |-> http.peer]>>
              /\ http.status = IF http.engineErr = NoErr THEN StatusOK
                               ELSE StatusInternalServerError

\* C20: the log-entry key of a successful SetKeyVal belongs to its cell alone: no
\* other (table, row, column) triple, with or without the separator in its
\* components, is mapped to the same key.
C20_DistinctCellsDistinctKeys ==
    (op.kind = "write" /\ op.result = NoErr) =>
        \A t \in Str, r \in Str, c \in Str :
            <<t, r, c>> # <<op.table, op.row, op.column>> =>
                MakeKey(t, r, c) # op.submitted[1].Key

\* C15: once the context is cancelled and Serve has returned, the client-facing
\* listener is not running, and it routes no request to ServeHTTP after the
\* return.
C15_ListenerStopsWithServe ==
    (cancelled /\ serveRet # "running") =>
        /\ listener # "running"
        /\ routed # "returned"

\* C16: when the listener has failed and the process is over, the failure was
\* handled as a task failure: the context was cancelled, both Shutdown calls
\* were invoked and Serve returned a non-nil error.
C16_ListenerFailureIsTaskFailure ==
    (listener = "failed" /\ ~procAlive) =>
        /\ cancelled
        /\ \A c \in CleanupTasks : ShutdownInvoked(c)
        /\ serveRet \notin {"running", NoErr}

\* C18: once the context is cancelled, every goroutine of the group returns and
\* Serve returns, given that the monitor returns on cancellation, both Shutdown
\* calls return and the serf agent's Shutdown closes its shutdown channel.
C18_ServeTerminates ==
    cancelled ~> ((\A t \in Tasks : pc[t] = "done") /\ serveRet # "running")

\* C19: when serfAgent.Start() failed, cancelling the context, and the monitor
\* returned no error, Serve returns the start error, whatever the order of the
\* serf goroutine and the two cleanup goroutines and whatever Shutdown returned.
C19_StartErrorReturned ==
    (/\ serveRet # "running"
     /\ taskErr["serf"] = "errSerfStart"
     /\ cause = "serfStart"
     /\ taskErr["monitor"] = NoErr) => serveRet = "errSerfStart"

====
